---- MODULE Spec2Model ----
(***************************************************************************)
(* Model of the ai-context-sync synchronisation engine:                    *)
(*   FileChangeTracker (fingerprint store), UniversalHandler /             *)
(*   BaseTargetHandler / TargetManager (target dispatcher) and SyncManager *)
(*   (full and incremental sync).                                          *)
(* Paths, file names, patterns and file contents are sequences of          *)
(* one-character strings, so that basename, endsWith, the glob-to-regex    *)
(* match and the transform rules are computed as the code computes them.   *)
(***************************************************************************)
EXTENDS Integers, Sequences, FiniteSets, TLC

\* ------------------------------------------------------------------ bounds
\* modification times are drawn from 0..MaxTime
MaxTime == 1
\* the environment (other programs touching the files) takes at most
\* MaxEnvSteps steps in a behaviour
MaxEnvSteps == 2

\* ------------------------------------------------------------ string helpers
\* the value of an absent optional string (a rule's replacement, the source
\* argument of transform); an absent list behaves as the empty list everywhere
\* the code tests it, and is modelled as <<>>
Undefined == <<"undefined">>

\* String.prototype.endsWith
EndsWith(s, suffix) ==
  /\ Len(suffix) <= Len(s)
  /\ SubSeq(s, Len(s) - Len(suffix) + 1, Len(s)) = suffix

\* String.prototype.startsWith
StartsWith(s, prefix) ==
  /\ Len(prefix) <= Len(s)
  /\ SubSeq(s, 1, Len(prefix)) = prefix

\* String.prototype.includes for a single character
Includes(s, ch) == \E i \in 1..Len(s) : s[i] = ch

\* index of the last "/" of a path, 0 when there is none
LastSlash(p) ==
  IF \E i \in 1..Len(p) : p[i] = "/"
    THEN CHOOSE i \in 1..Len(p) : p[i] = "/" /\ \A j \in (i+1)..Len(p) : p[j] # "/"
    ELSE 0

\* path.basename
Basename(p) == SubSeq(p, LastSlash(p) + 1, Len(p))

\* path.dirname (relative paths only: "." when the path has no directory part)
Dirname(p) == IF LastSlash(p) = 0 THEN <<".">> ELSE SubSeq(p, 1, LastSlash(p) - 1)

\* ------------------------------------------------- UniversalHandler matching
\* RegExp match of the pattern at the start of s, the pattern being the
\* source pattern after pattern.replace(/\*/g, '.*'): "*" is ".*", "." is
\* the regex dot, every other character is a literal; no end anchor.
RECURSIVE MatchHere(_, _)
MatchHere(pat, s) ==
  IF pat = <<>> THEN TRUE
  ELSE IF Head(pat) = "*"
    THEN \E k \in 0..Len(s) : MatchHere(Tail(pat), SubSeq(s, k + 1, Len(s)))
  ELSE IF Head(pat) = "."
    THEN s # <<>> /\ MatchHere(Tail(pat), Tail(s))
  ELSE s # <<>> /\ Head(s) = Head(pat) /\ MatchHere(Tail(pat), Tail(s))

\* RegExp.prototype.test without anchors: a match may start anywhere
RegexTest(pat, s) == \E i \in 0..Len(s) : MatchHere(pat, SubSeq(s, i + 1, Len(s)))

\* UniversalHandler.matchesSourcePattern
matchesSourcePattern(source, pattern) ==
  IF Includes(pattern, "*")
    THEN RegexTest(pattern, Basename(source))
    ELSE Basename(source) = pattern \/ EndsWith(source, pattern)

\* --------------------------------------------------------- transform rules
\* String.prototype.replace with a global RegExp made of literal characters:
\* every leftmost non-overlapping occurrence of pat is replaced by rep
RECURSIVE ReplaceAll(_, _, _)
ReplaceAll(content, pat, rep) ==
  IF content = <<>> THEN <<>>
  ELSE IF StartsWith(content, pat)
    THEN rep \o ReplaceAll(SubSeq(content, Len(pat) + 1, Len(content)), pat, rep)
    ELSE <<Head(content)>> \o ReplaceAll(Tail(content), pat, rep)

\* one iteration of the switch in UniversalHandler.applyTransformRules
applyRule(content, rule) ==
  CASE rule.type = "replace" ->
         IF rule.pattern # <<>> /\ rule.replacement # Undefined
           THEN ReplaceAll(content, rule.pattern, rule.replacement)
           ELSE content
    [] rule.type = "prepend" ->
         IF rule.replacement # Undefined /\ rule.replacement # <<>>
           THEN rule.replacement \o content
           ELSE content
    [] rule.type = "append" ->
         IF rule.replacement # Undefined /\ rule.replacement # <<>>
           THEN content \o rule.replacement
           ELSE content
    [] OTHER -> content

\* UniversalHandler.applyTransformRules: the rules in declared order
RECURSIVE applyTransformRules(_, _)
applyTransformRules(content, transformRules) ==
  IF transformRules = <<>> THEN content
  ELSE applyTransformRules(applyRule(content, Head(transformRules)), Tail(transformRules))

\* the loop of UniversalHandler.transform over target.mapping
RECURSIVE transformLoop(_, _, _)
transformLoop(content, mappings, source) ==
  IF mappings = <<>> THEN content
  ELSE LET m == Head(mappings)
           c == IF matchesSourcePattern(source, m.source) /\ m.transform # <<>>
                  THEN applyTransformRules(content, m.transform)
                  ELSE content
       IN transformLoop(c, Tail(mappings), source)

\* UniversalHandler.transform(content, target, source?)
transform(content, target, source) ==
  IF target.mapping # <<>> /\ source # Undefined /\ source # <<>>
    THEN transformLoop(content, target.mapping, source)
    ELSE content

\* ------------------------------------------------------------ the universe
\* declared source files
srcA  == <<"a">>
srcAB == <<"a", "b">>
srcDB == <<"d", "/", "b">>
SourcePaths == {srcA, srcAB, srcDB}

\* directories
cwd  == <<".">>
dirD == <<"d">>
dirO == <<"o">>
DirPaths == {cwd, dirD, dirO}

\* destination files
dstOA == <<"o", "/", "a">>
dstOB == <<"o", "/", "b">>
dstK  == <<"k">>
DestPaths == {dstOA, dstOB, dstK}

Paths == SourcePaths \cup DirPaths \cup DestPaths

\* file contents
Contents == {<<"x">>, <<"y", "x">>}

Times == 0..MaxTime

\* the time at which the engine runs: its writes carry the latest time
Now == MaxTime

\* a path that does not exist, a directory, a regular file
NoFile == [kind |-> "none", content |-> <<>>, mtime |-> 0]
Dir == [kind |-> "dir", content |-> <<>>, mtime |-> 0]
File(c, t) == [kind |-> "file", content |-> c, mtime |-> t]

\* transform rules (types/index.ts TransformRule)
ruleAppendZ   == [type |-> "append", pattern |-> <<>>, replacement |-> <<"z">>]
rulePrependW  == [type |-> "prepend", pattern |-> <<>>, replacement |-> <<"w">>]
ruleReplaceXY == [type |-> "replace", pattern |-> <<"x">>, replacement |-> <<"y">>]

\* file mappings (types/index.ts FileMapping)
Mapping(src, dst, rules) == [source |-> src, destination |-> dst, transform |-> rules]
mapA      == Mapping(<<"a">>, dstOA, <<>>)
mapARules == Mapping(<<"a">>, dstOA, <<ruleReplaceXY, ruleAppendZ>>)
mapStarB  == Mapping(<<"*", "b">>, dstOB, <<rulePrependW>>)
mapB      == Mapping(<<"b">>, dstK, <<>>)
mapNoDest == Mapping(<<"a">>, <<>>, <<>>)
mapBStar  == Mapping(<<"b", "*">>, dstOB, <<>>)

\* target descriptors (types/index.ts TargetConfig)
Target(n, ty, p, ms, en) ==
  [name |-> n, type |-> ty, path |-> p, mapping |-> ms, enabled |-> en]
tPlain    == Target("plain", "custom", dirO, <<mapA, mapStarB>>, TRUE)
tRules    == Target("rules", "custom", dirO, <<mapARules, mapStarB, mapB>>, TRUE)
tOnlyA    == Target("onlyA", "cursor", dirO, <<mapA>>, TRUE)
tNoPath   == Target("nopath", "custom", <<>>, <<mapA>>, TRUE)
tBadMap   == Target("badmap", "custom", dirO, <<mapNoDest>>, TRUE)
tOff      == Target("off", "custom", dirO, <<mapA, mapStarB>>, FALSE)
tOffEmpty == Target("offEmpty", "custom", dirO, <<>>, FALSE)
tTail     == Target("tail", "custom", dirO, <<mapBStar, mapB>>, TRUE)
Targets == {tPlain, tRules, tOnlyA, tNoPath, tBadMap, tOff, tOffEmpty, tTail}

\* a target rooted in the directory d, writing every *b source to d/b
mapStarBInD == Mapping(<<"*", "b">>, srcDB, <<>>)
tInD == Target("ind", "custom", dirD, <<mapStarBInD>>, TRUE)

\* a target of a custom type whose base path is ".", the directory that
\* holds the sources (the base path of every example of the README)
tHere == Target("here", "custom-ai-v2", cwd, <<mapA>>, TRUE)

\* error messages: the fixed text and the value interpolated into it
Err(msg, arg) == [msg |-> msg, arg |-> arg]

\* the outcome of a step that may throw
Ok(v) == [ok |-> TRUE, val |-> v, err |-> Err("", <<>>)]
Throw(e) == [ok |-> FALSE, val |-> <<>>, err |-> e]

\* SyncResult (types/index.ts); timestamp and duration are not modelled
SyncResult(s, m, f, e) == [success |-> s, message |-> m, files |-> f, errors |-> e]

\* ---------------------------------------------------------- file system
\* fs.access / fs-extra pathExists
fileExists(f, p) == f[p].kind # "none"

\* fs.readFile(p, 'utf-8')
readFile(f, p) ==
  CASE f[p].kind = "file" -> Ok(f[p].content)
    [] f[p].kind = "dir" -> Throw(Err("EISDIR", p))
    [] OTHER -> Throw(Err("ENOENT", p))

\* BaseTargetHandler.ensureDirectoryExists: mkdir recursive, EEXIST ignored;
\* lk is the set of paths that cannot be created, written or removed
ensureDirectoryExists(f, lk, d) ==
  CASE f[d].kind = "dir" -> Ok(f)
    [] f[d].kind = "file" -> Ok(f)
    [] d \in lk -> Throw(Err("EACCES", d))
    [] OTHER -> Ok([f EXCEPT ![d] = Dir])

\* writeFile appending to the file that is there instead of replacing it
writeFileAppends(f, lk, p, content, now) ==
  CASE f[Dirname(p)].kind # "dir" -> Throw(Err("ENOTDIR", p))
    [] f[p].kind = "dir" -> Throw(Err("EISDIR", p))
    [] p \in lk -> Throw(Err("EACCES", p))
    [] OTHER -> Ok([f EXCEPT ![p] = File(f[p].content \o content, now)])

\* fs.writeFile(p, content, 'utf-8') at time now
writeFile(f, lk, p, content, now) ==
  CASE f[Dirname(p)].kind # "dir" -> Throw(Err("ENOTDIR", p))
    [] f[p].kind = "dir" -> Throw(Err("EISDIR", p))
    [] p \in lk -> Throw(Err("EACCES", p))
    [] OTHER -> Ok([f EXCEPT ![p] = File(content, now)])

\* ------------------------------------------------------ UniversalHandler
\* UniversalHandler.canHandle
canHandle(type) == TRUE

\* UniversalHandler.validateSpecific
validateSpecific(target) ==
  /\ target.mapping # <<>>
  /\ \A i \in 1..Len(target.mapping) :
       target.mapping[i].source # <<>> /\ target.mapping[i].destination # <<>>

\* BaseTargetHandler.validate
validate(target) ==
  /\ target.name # "" /\ target.type # "" /\ target.path # <<>>
  /\ canHandle(target.type)
  /\ validateSpecific(target)

\* the loop of UniversalHandler.getTargetPath: the first matching mapping
RECURSIVE firstMatch(_, _)
firstMatch(mappings, source) ==
  IF mappings = <<>> THEN 0
  ELSE IF matchesSourcePattern(source, Head(mappings).source) THEN 1
  ELSE LET r == firstMatch(Tail(mappings), source)
       IN IF r = 0 THEN 0 ELSE r + 1

\* getTargetPath letting the last matching mapping win
getTargetPathLastMatch(target, source) ==
  LET matching == {i \in 1..Len(target.mapping) :
                     matchesSourcePattern(source, target.mapping[i].source)}
  IN IF matching # {}
       THEN Ok(target.mapping[CHOOSE i \in matching : \A j \in matching : j <= i].destination)
       ELSE Throw(Err("No mapping found for source file", Basename(source)))

\* getTargetPath falling back on a guessed path (the first mapping's
\* destination) when no mapping matches
getTargetPathGuess(target, source) ==
  LET i == firstMatch(target.mapping, source)
  IN IF i # 0
       THEN Ok(target.mapping[i].destination)
       ELSE IF target.mapping = <<>>
         THEN Throw(Err("No mapping found for source file", Basename(source)))
         ELSE Ok(target.mapping[1].destination)

\* UniversalHandler.getTargetPath
getTargetPath(target, source) ==
  LET i == firstMatch(target.mapping, source)
  IN IF i # 0
       THEN Ok(target.mapping[i].destination)
       ELSE Throw(Err("No mapping found for source file", Basename(source)))

\* the try block of BaseTargetHandler.sync: the steps in order, the first
\* failing step throws; the file system reached is kept in either case
syncBody(f, lk, source, target, now) ==
  IF ~validate(target)
    THEN [out |-> Throw(Err("Invalid target configuration for", <<target.name>>)), fs |-> f]
  ELSE IF ~fileExists(f, source)
    THEN [out |-> Throw(Err("Source file does not exist", source)), fs |-> f]
  ELSE LET rd == readFile(f, source) IN
  IF ~rd.ok THEN [out |-> Throw(rd.err), fs |-> f]
  ELSE LET transformedContent == transform(rd.val, target, Undefined)
           tp == getTargetPath(target, source) IN
  IF ~tp.ok THEN [out |-> Throw(tp.err), fs |-> f]
  ELSE LET mk == ensureDirectoryExists(f, lk, Dirname(tp.val)) IN
  IF ~mk.ok THEN [out |-> Throw(mk.err), fs |-> f]
  ELSE LET wr == writeFile(mk.val, lk, tp.val, transformedContent, now) IN
  IF ~wr.ok THEN [out |-> Throw(wr.err), fs |-> mk.val]
  ELSE [out |-> Ok(tp.val), fs |-> wr.val]

\* BaseTargetHandler.sync whose catch forgets to record the error message
handlerSyncNoErrors(f, lk, source, target, now) ==
  LET catch(b) ==
        IF b.out.ok
          THEN [threw |-> FALSE, err |-> Err("", <<>>), fs |-> b.fs,
                result |-> SyncResult(TRUE, "Successfully synced", <<b.out.val>>, <<>>)]
          ELSE [threw |-> FALSE, err |-> Err("", <<>>), fs |-> b.fs,
                result |-> SyncResult(FALSE, "Failed to sync", <<>>, <<>>)]
  IN catch(syncBody(f, lk, source, target, now))

\* BaseTargetHandler.sync: the try block and its catch; nothing is thrown
\* past the catch (threw, with the error in err, is what a caller would see)
handlerSync(f, lk, source, target, now) ==
  LET catch(b) ==
        IF b.out.ok
          THEN [threw |-> FALSE, err |-> Err("", <<>>), fs |-> b.fs,
                result |-> SyncResult(TRUE, "Successfully synced", <<b.out.val>>, <<>>)]
          ELSE [threw |-> FALSE, err |-> Err("", <<>>), fs |-> b.fs,
                result |-> SyncResult(FALSE, "Failed to sync", <<>>, <<b.out.err>>)]
  IN catch(syncBody(f, lk, source, target, now))

\* the try block of BaseTargetHandler.sync up to the await of readFile:
\* validation, the existence test and the read of the source
syncRead(f, source, target) ==
  IF ~validate(target)
    THEN Throw(Err("Invalid target configuration for", <<target.name>>))
  ELSE IF ~fileExists(f, source)
    THEN Throw(Err("Source file does not exist", source))
  ELSE readFile(f, source)

\* the try block of BaseTargetHandler.sync after the read: the content read
\* is transformed and written to the target path
syncWrite(f, lk, source, target, content, now) ==
  LET transformedContent == transform(content, target, Undefined)
      tp == getTargetPath(target, source) IN
  IF ~tp.ok THEN [out |-> Throw(tp.err), fs |-> f]
  ELSE LET mk == ensureDirectoryExists(f, lk, Dirname(tp.val)) IN
  IF ~mk.ok THEN [out |-> Throw(mk.err), fs |-> f]
  ELSE LET wr == writeFile(mk.val, lk, tp.val, transformedContent, now) IN
  IF ~wr.ok THEN [out |-> Throw(wr.err), fs |-> mk.val]
  ELSE [out |-> Ok(tp.val), fs |-> wr.val]

\* --------------------------------------------------------- TargetManager
\* TargetManager.getHandler: a type-specific handler first, the universal one
\* (key "*") second; hs is the set of keys of the handlers map
getHandler(hs, type) ==
  IF type \in hs THEN type
  ELSE IF "*" \in hs /\ canHandle(type) THEN "*"
  ELSE "none"

\* TargetManager.hasHandler
hasHandler(hs, type) == type \in hs \/ ("*" \in hs /\ canHandle(type))

\* TargetManager.sync
targetManagerSync(hs, f, lk, source, target, now) ==
  IF getHandler(hs, target.type) = "none"
    THEN [threw |-> FALSE, err |-> Err("", <<>>), fs |-> f,
          result |-> SyncResult(FALSE, "No handler registered for AI tool type", <<>>,
                                <<Err("Unsupported target type", <<target.type>>)>>)]
  ELSE LET catch(r) ==
             IF r.threw
               THEN [threw |-> FALSE, err |-> Err("", <<>>), fs |-> r.fs,
                     result |-> SyncResult(FALSE, "Handler failed to sync", <<>>, <<r.err>>)]
               ELSE r
       IN catch(handlerSync(f, lk, source, target, now))

\* the loop of TargetManager.validateTargets
RECURSIVE validateLoop(_, _)
validateLoop(hs, targets) ==
  IF targets = <<>> THEN <<>>
  ELSE LET t == Head(targets)
           e == IF ~hasHandler(hs, t.type)
                  THEN <<Err("No handler registered for target type", <<t.type>>)>>
                ELSE IF ~validate(t)
                  THEN <<Err("Invalid configuration for target", <<t.name>>)>>
                ELSE <<>>
       IN e \o validateLoop(hs, Tail(targets))

\* TargetManager.validateTargets
validateTargets(hs, targets) ==
  LET errors == validateLoop(hs, targets)
  IN [valid |-> errors = <<>>, errors |-> errors]

\* ----------------------------------------------------- FileChangeTracker
\* crypto sha256 digest of the whole content; distinct contents have
\* distinct digests (collision resistance), equal contents equal digests
Hash(content) == <<"sha256">> \o content

\* FileChangeInfo (types/index.ts); the path is the key of the map
Info(h, sz, lm) == [hash |-> h, size |-> sz, lastModified |-> lm]

\* Map.get of a key that is absent
NoInfo == Info(<<>>, -1, -1)

\* FileChangeTracker.calculateFileHash
calculateFileHash(f, p) == Hash(f[p].content)

\* getFileChangeInfo without the stats.isFile() test: a directory is
\* fingerprinted as an empty file
getFileChangeInfoAnyKind(f, p) ==
  CASE f[p].kind = "none" -> Throw(Err("ENOENT", p))
    [] OTHER -> Ok(Info(calculateFileHash(f, p), Len(f[p].content), f[p].mtime))

\* FileChangeTracker.getFileChangeInfo
getFileChangeInfo(f, p) ==
  CASE f[p].kind = "none" -> Throw(Err("ENOENT", p))
    [] f[p].kind = "dir" -> Throw(Err("is not a file", p))
    [] OTHER -> Ok(Info(calculateFileHash(f, p), Len(f[p].content), f[p].mtime))

\* track storing a fingerprint without the modification time it read
trackNoMtime(ch, f, p) ==
  LET changeInfo == getFileChangeInfo(f, p)
  IN IF changeInfo.ok
       THEN Ok([ch EXCEPT ![p] = Info(changeInfo.val.hash, changeInfo.val.size, 0)])
       ELSE Throw(Err("Failed to track file", p))

\* FileChangeTracker.track: the new map, or the error thrown
track(ch, f, p) ==
  LET changeInfo == getFileChangeInfo(f, p)
  IN IF changeInfo.ok
       THEN Ok([ch EXCEPT ![p] = changeInfo.val])
       ELSE Throw(Err("Failed to track file", p))

\* FileChangeTracker.updateTracking
updateTracking(ch, f, p) == track(ch, f, p)

\* hasChanged reporting an untracked path as unchanged
hasChangedUntrackedFalse(ch, f, p) ==
  LET previousInfo == ch[p]
      currentInfo == getFileChangeInfo(f, p)
  IN IF previousInfo = NoInfo THEN FALSE
     ELSE IF ~currentInfo.ok THEN TRUE
     ELSE \/ currentInfo.val.hash # previousInfo.hash
          \/ currentInfo.val.lastModified # previousInfo.lastModified
          \/ currentInfo.val.size # previousInfo.size

\* hasChanged comparing the content hash only
hasChangedHashOnly(ch, f, p) ==
  LET previousInfo == ch[p]
      currentInfo == getFileChangeInfo(f, p)
  IN IF previousInfo = NoInfo THEN TRUE
     ELSE IF ~currentInfo.ok THEN TRUE
     ELSE currentInfo.val.hash # previousInfo.hash

\* hasChanged reporting a file it cannot read as unchanged
hasChangedErrorFalse(ch, f, p) ==
  LET previousInfo == ch[p]
      currentInfo == getFileChangeInfo(f, p)
  IN IF previousInfo = NoInfo THEN TRUE
     ELSE IF ~currentInfo.ok THEN FALSE
     ELSE \/ currentInfo.val.hash # previousInfo.hash
          \/ currentInfo.val.lastModified # previousInfo.lastModified
          \/ currentInfo.val.size # previousInfo.size

\* FileChangeTracker.hasChanged
hasChanged(ch, f, p) ==
  LET previousInfo == ch[p]
      currentInfo == getFileChangeInfo(f, p)
  IN IF previousInfo = NoInfo THEN TRUE
     ELSE IF ~currentInfo.ok THEN TRUE
     ELSE \/ currentInfo.val.hash # previousInfo.hash
          \/ currentInfo.val.lastModified # previousInfo.lastModified
          \/ currentInfo.val.size # previousInfo.size

\* FileChangeTracker.getChangedFiles: the paths of filePaths, in order, for
\* which hasChanged answers true
RECURSIVE getChangedFiles(_, _, _)
getChangedFiles(ch, f, filePaths) ==
  IF filePaths = <<>> THEN <<>>
  ELSE (IF hasChanged(ch, f, Head(filePaths)) THEN <<Head(filePaths)>> ELSE <<>>)
       \o getChangedFiles(ch, f, Tail(filePaths))

\* FileChangeTracker.trackMultiple: the fingerprints after the loop and the
\* paths tracked, in order; a failing track is caught and the loop goes on
RECURSIVE trackMultiple(_, _, _)
trackMultiple(ch, f, filePaths) ==
  IF filePaths = <<>> THEN [changes |-> ch, trackedFiles |-> <<>>]
  ELSE LET push(ok, rest) ==
             [changes |-> rest.changes,
              trackedFiles |-> (IF ok THEN <<Head(filePaths)>> ELSE <<>>) \o rest.trackedFiles]
           step(r) ==
             push(r.ok, trackMultiple(IF r.ok THEN r.val ELSE ch, f, Tail(filePaths)))
       IN step(track(ch, f, Head(filePaths)))

\* FileChangeTracker.isTracked
isTracked(ch, p) == ch[p] # NoInfo

\* untrack dropping every fingerprint of the store
untrackDropsAll(ch, p) == [q \in DOMAIN ch |-> NoInfo]

\* FileChangeTracker.untrack
untrack(ch, p) == [ch EXCEPT ![p] = NoInfo]

\* FileChangeTracker.clear
clearTracking(ch) == [p \in DOMAIN ch |-> NoInfo]

\* ----------------------------------------------------------- SyncManager
\* path.join of a directory and a name
Join(d, name) == IF d = cwd THEN name ELSE d \o <<"/">> \o name

\* SyncManager.getTargetDirectoryPath
getTargetDirectoryPath(target) ==
  CASE target.type = "kiro" -> Join(Join(target.path, <<".kiro">>), <<"steering">>)
    [] target.type = "cursor" -> Join(target.path, <<".cursor">>)
    [] target.type = "vscode" -> Join(target.path, <<".vscode">>)
    [] target.type = "claudecode" -> Join(Join(target.path, <<".claudecode">>), <<"rules">>)
    [] target.type = "gemini-cli" -> Join(Join(target.path, <<".gemini">>), <<"prompts">>)
    [] OTHER -> target.path

\* fs-extra pathExists, also for a path outside the modelled tree
pathExists(f, p) == p \in DOMAIN f /\ f[p].kind # "none"

\* the regular files below a directory, at any depth
filesUnder(f, d) ==
  {p \in DOMAIN f : /\ f[p].kind = "file"
                    /\ p # d
                    /\ (d = cwd \/ StartsWith(p, d \o <<"/">>))}

\* SyncManager.cleanDirectory: the files it removes. Every file below the
\* directory when none of them is locked; when a removal fails the walk stops
\* there, and visited (readdir order is unspecified) are the entries reached
\* before the failing one. A path that is not a directory makes readdir throw.
cleanDirectory(f, lk, d, visited) ==
  IF f[d].kind # "dir" THEN {}
  ELSE IF filesUnder(f, d) \cap lk = {} THEN filesUnder(f, d)
  ELSE (filesUnder(f, d) \ lk) \cap visited

\* cleanTargetDirectories giving up at the first target whose cleaning fails
RECURSIVE cleanLoopStops(_, _, _, _, _)
cleanLoopStops(hs, f, lk, targets, visited) ==
  IF targets = <<>> THEN {}
  ELSE LET target == Head(targets)
           targetPath == getTargetDirectoryPath(target)
           skipped == \/ target.enabled = FALSE
                      \/ getHandler(hs, target.type) = "none"
                      \/ ~pathExists(f, targetPath)
           failed == /\ ~skipped
                     /\ (f[targetPath].kind # "dir" \/ filesUnder(f, targetPath) \cap lk # {})
       IN IF skipped THEN cleanLoopStops(hs, f, lk, Tail(targets), visited)
          ELSE IF failed THEN cleanDirectory(f, lk, targetPath, visited)
          ELSE cleanDirectory(f, lk, targetPath, visited)
               \cup cleanLoopStops(hs, f, lk, Tail(targets), visited)

\* the loop of SyncManager.cleanTargetDirectories: the files removed
RECURSIVE cleanLoop(_, _, _, _, _)
cleanLoop(hs, f, lk, targets, visited) ==
  IF targets = <<>> THEN {}
  ELSE LET target == Head(targets)
           targetPath == getTargetDirectoryPath(target)
           removed == IF target.enabled = FALSE THEN {}
                      ELSE IF getHandler(hs, target.type) = "none" THEN {}
                      ELSE IF ~pathExists(f, targetPath) THEN {}
                      ELSE cleanDirectory(f, lk, targetPath, visited)
       IN removed \cup cleanLoop(hs, f, lk, Tail(targets), visited)

\* SyncManager.cleanTargetDirectories
cleanTargetDirectories(hs, f, lk, targets, visited) ==
  LET removed == cleanLoop(hs, f, lk, targets, visited)
  IN [p \in DOMAIN f |-> IF p \in removed THEN NoFile ELSE f[p]]

\* the running state of a pass: file system, fingerprints, results, errors and
\* the trace of what the pass did (one entry per missing source and per
\* dispatched pair, in the order of execution)
Pass(f, ch, files, errors, log) ==
  [fs |-> f, changes |-> ch, files |-> files, errors |-> errors, log |-> log]

LogEntry(kind, si, ti, result) == [kind |-> kind, si |-> si, ti |-> ti, result |-> result]

NoResult == SyncResult(FALSE, "", <<>>, <<>>)

\* the inner loop of SyncManager.fullSync over config.targets, from index ti
RECURSIVE fullTargetLoop(_, _, _, _, _, _, _)
fullTargetLoop(st, hs, lk, config, si, ti, now) ==
  IF ti > Len(config.targets) THEN st
  ELSE LET target == config.targets[ti] IN
    IF target.enabled = FALSE
      THEN fullTargetLoop(st, hs, lk, config, si, ti + 1, now)
    ELSE LET collect(r) ==
               LET e == LogEntry("pair", si, ti, r.result) IN
               IF r.threw
                 THEN Pass(r.fs, st.changes, st.files,
                           st.errors \o <<Err("Failed to sync", config.sources[si])>>,
                           Append(st.log, e))
               ELSE IF r.result.success
                 THEN Pass(r.fs, st.changes, st.files \o r.result.files,
                           st.errors, Append(st.log, e))
               ELSE Pass(r.fs, st.changes, st.files,
                         st.errors \o r.result.errors, Append(st.log, e))
         IN fullTargetLoop(
              collect(targetManagerSync(hs, st.fs, lk, config.sources[si], target, now)),
              hs, lk, config, si, ti + 1, now)

\* the outer loop of fullSync giving up at the first missing source
fullSourceLoopStops(st, hs, lk, config, si, now) ==
  IF si > Len(config.sources) THEN st
  ELSE LET source == config.sources[si] IN
    IF ~pathExists(st.fs, source)
      THEN Pass(st.fs, st.changes, st.files,
                st.errors \o <<Err("Source file not found", source)>>,
                Append(st.log, LogEntry("missing", si, 0, NoResult)))
      ELSE fullTargetLoop(st, hs, lk, config, si, 1, now)

\* the outer loop of SyncManager.fullSync over config.sources, from index si
RECURSIVE fullSourceLoop(_, _, _, _, _, _)
fullSourceLoop(st, hs, lk, config, si, now) ==
  IF si > Len(config.sources) THEN st
  ELSE LET source == config.sources[si] IN
    IF ~pathExists(st.fs, source)
      THEN fullSourceLoop(
             Pass(st.fs, st.changes, st.files,
                  st.errors \o <<Err("Source file not found", source)>>,
                  Append(st.log, LogEntry("missing", si, 0, NoResult))),
             hs, lk, config, si + 1, now)
      ELSE fullSourceLoop(fullTargetLoop(st, hs, lk, config, si, 1, now),
                          hs, lk, config, si + 1, now)

\* the outcome of one SyncManager call: the SyncResult returned and the state left
Outcome(result, st, validated, cleaned) ==
  [result |-> result, fs |-> st.fs, changes |-> st.changes, log |-> st.log,
   validated |-> validated, cleaned |-> cleaned]

\* fullSync going on with cleanup and writes although validation failed
fullSyncNoGate(hs, f, lk, ch, config, now, visited) ==
  LET validation == validateTargets(hs, config.targets)
      cleanedFs == cleanTargetDirectories(hs, f, lk, config.targets, visited)
      finish(st) ==
        Outcome(SyncResult(FALSE, "Invalid target configuration", <<>>,
                           IF validation.valid THEN st.errors ELSE validation.errors),
                st, validation.valid, TRUE)
  IN finish(fullSourceLoop(Pass(cleanedFs, ch, <<>>, <<>>, <<>>), hs, lk, config, 1, now))

\* fullSync reporting the files but dropping the errors of the pass
fullSyncDropsErrors(hs, f, lk, ch, config, now, visited) ==
  LET validation == validateTargets(hs, config.targets)
      start == Pass(f, ch, <<>>, <<>>, <<>>)
  IN IF ~validation.valid
       THEN Outcome(SyncResult(FALSE, "Invalid target configuration", <<>>, validation.errors),
                    start, FALSE, FALSE)
       ELSE LET cleanedFs == cleanTargetDirectories(hs, f, lk, config.targets, visited)
                finish(st) ==
                  Outcome(SyncResult(TRUE, "Full sync completed", st.files, <<>>),
                          st, TRUE, TRUE)
            IN finish(fullSourceLoop(Pass(cleanedFs, ch, <<>>, <<>>, <<>>),
                                     hs, lk, config, 1, now))

\* fullSync cleaning the target directories after the write phase
fullSyncCleansLast(hs, f, lk, ch, config, now, visited) ==
  LET validation == validateTargets(hs, config.targets)
      start == Pass(f, ch, <<>>, <<>>, <<>>)
  IN IF ~validation.valid
       THEN Outcome(SyncResult(FALSE, "Invalid target configuration", <<>>, validation.errors),
                    start, FALSE, FALSE)
       ELSE LET finish(st) ==
                  Outcome(SyncResult(st.errors = <<>>, "Full sync completed",
                                     st.files, st.errors),
                          [st EXCEPT !.fs = cleanTargetDirectories(hs, st.fs, lk,
                                                                   config.targets, visited)],
                          TRUE, TRUE)
            IN finish(fullSourceLoop(start, hs, lk, config, 1, now))

\* SyncManager.fullSync
fullSync(hs, f, lk, ch, config, now, visited) ==
  LET validation == validateTargets(hs, config.targets)
      start == Pass(f, ch, <<>>, <<>>, <<>>)
  IN IF ~validation.valid
       THEN Outcome(SyncResult(FALSE, "Invalid target configuration", <<>>, validation.errors),
                    start, FALSE, FALSE)
       ELSE LET cleanedFs == cleanTargetDirectories(hs, f, lk, config.targets, visited)
                finish(st) ==
                  Outcome(SyncResult(st.errors = <<>>, "Full sync completed",
                                     st.files, st.errors),
                          st, TRUE, TRUE)
            IN finish(fullSourceLoop(Pass(cleanedFs, ch, <<>>, <<>>, <<>>),
                                     hs, lk, config, 1, now))

\* getChangedSourceFiles taking every declared source as changed
RECURSIVE getChangedSourceFilesAll(_, _, _, _)
getChangedSourceFilesAll(ch, f, sources, si) ==
  IF si > Len(sources) THEN <<>>
  ELSE <<si>> \o getChangedSourceFilesAll(ch, f, sources, si + 1)

\* getChangedSourceFiles dropping a source that no longer exists
RECURSIVE getChangedSourceFilesSkipsMissing(_, _, _, _)
getChangedSourceFilesSkipsMissing(ch, f, sources, si) ==
  IF si > Len(sources) THEN <<>>
  ELSE LET source == sources[si]
           changed == IF pathExists(f, source) THEN hasChanged(ch, f, source) ELSE FALSE
       IN (IF changed THEN <<si>> ELSE <<>>)
          \o getChangedSourceFilesSkipsMissing(ch, f, sources, si + 1)

\* SyncManager.getChangedSourceFiles: the indices, in declared order, of the
\* sources that are missing or differ from their stored fingerprint
RECURSIVE getChangedSourceFiles(_, _, _, _)
getChangedSourceFiles(ch, f, sources, si) ==
  IF si > Len(sources) THEN <<>>
  ELSE LET source == sources[si]
           changed == IF pathExists(f, source) THEN hasChanged(ch, f, source) ELSE TRUE
       IN (IF changed THEN <<si>> ELSE <<>>) \o getChangedSourceFiles(ch, f, sources, si + 1)

\* the inner loop of incrementalSync without the updateTracking call
RECURSIVE incTargetLoopNoTracking(_, _, _, _, _, _, _)
incTargetLoopNoTracking(st, hs, lk, config, si, ti, now) ==
  IF ti > Len(config.targets) THEN st
  ELSE IF config.targets[ti].enabled = FALSE
    THEN incTargetLoopNoTracking(st, hs, lk, config, si, ti + 1, now)
  ELSE LET collect(r) ==
             Pass(r.fs, st.changes,
                  IF r.result.success THEN st.files \o r.result.files ELSE st.files,
                  IF r.result.success THEN st.errors ELSE st.errors \o r.result.errors,
                  Append(st.log, LogEntry("pair", si, ti, r.result)))
       IN incTargetLoopNoTracking(
            collect(targetManagerSync(hs, st.fs, lk, config.sources[si],
                                      config.targets[ti], now)),
            hs, lk, config, si, ti + 1, now)

\* the inner loop of incrementalSync refreshing the fingerprint after a
\* failed pair as well
RECURSIVE incTargetLoopTracksFailures(_, _, _, _, _, _, _)
incTargetLoopTracksFailures(st, hs, lk, config, si, ti, now) ==
  IF ti > Len(config.targets) THEN st
  ELSE IF config.targets[ti].enabled = FALSE
    THEN incTargetLoopTracksFailures(st, hs, lk, config, si, ti + 1, now)
  ELSE LET collect(r) ==
             LET upd == updateTracking(st.changes, r.fs, config.sources[si]) IN
             Pass(r.fs, IF upd.ok THEN upd.val ELSE st.changes,
                  IF r.result.success THEN st.files \o r.result.files ELSE st.files,
                  IF r.result.success THEN st.errors ELSE st.errors \o r.result.errors,
                  Append(st.log, LogEntry("pair", si, ti, r.result)))
       IN incTargetLoopTracksFailures(
            collect(targetManagerSync(hs, st.fs, lk, config.sources[si],
                                      config.targets[ti], now)),
            hs, lk, config, si, ti + 1, now)

\* the inner loop of SyncManager.incrementalSync over config.targets
RECURSIVE incTargetLoop(_, _, _, _, _, _, _)
incTargetLoop(st, hs, lk, config, si, ti, now) ==
  IF ti > Len(config.targets) THEN st
  ELSE LET target == config.targets[ti] IN
    IF target.enabled = FALSE
      THEN incTargetLoop(st, hs, lk, config, si, ti + 1, now)
    ELSE LET sourceFile == config.sources[si]
             collect(r) ==
               LET e == LogEntry("pair", si, ti, r.result)
                   upd == updateTracking(st.changes, r.fs, sourceFile) IN
               IF r.threw
                 THEN Pass(r.fs, st.changes, st.files,
                           st.errors \o <<Err("Failed to sync", sourceFile)>>,
                           Append(st.log, e))
               ELSE IF r.result.success
                 THEN IF upd.ok
                        THEN Pass(r.fs, upd.val, st.files \o r.result.files,
                                  st.errors, Append(st.log, e))
                        ELSE Pass(r.fs, st.changes, st.files \o r.result.files,
                                  st.errors \o <<Err("Failed to sync", sourceFile)>>,
                                  Append(st.log, e))
               ELSE Pass(r.fs, st.changes, st.files,
                         st.errors \o r.result.errors, Append(st.log, e))
         IN incTargetLoop(collect(targetManagerSync(hs, st.fs, lk, sourceFile, target, now)),
                          hs, lk, config, si, ti + 1, now)

\* the outer loop of SyncManager.incrementalSync over the changed files
RECURSIVE incSourceLoop(_, _, _, _, _, _)
incSourceLoop(st, hs, lk, config, changedFiles, now) ==
  IF changedFiles = <<>> THEN st
  ELSE incSourceLoop(incTargetLoop(st, hs, lk, config, Head(changedFiles), 1, now),
                     hs, lk, config, Tail(changedFiles), now)

\* incrementalSync without the early return on an empty changed set
incrementalSyncNoSkip(hs, f, lk, ch, config, now) ==
  LET validation == validateTargets(hs, config.targets)
      start == Pass(f, ch, <<>>, <<>>, <<>>)
      changedFiles == getChangedSourceFiles(ch, f, config.sources, 1)
  IN IF ~validation.valid
       THEN Outcome(SyncResult(FALSE, "Invalid target configuration", <<>>, validation.errors),
                    start, FALSE, FALSE)
     ELSE LET finish(st) ==
                Outcome(SyncResult(st.errors = <<>>, "Incremental sync completed",
                                   st.files, st.errors),
                        st, TRUE, FALSE)
          IN finish(incSourceLoop(start, hs, lk, config, changedFiles, now))

\* incrementalSync reporting success whatever the pairs returned
incrementalSyncAlwaysSucceeds(hs, f, lk, ch, config, now) ==
  LET validation == validateTargets(hs, config.targets)
      start == Pass(f, ch, <<>>, <<>>, <<>>)
      changedFiles == getChangedSourceFiles(ch, f, config.sources, 1)
  IN IF ~validation.valid
       THEN Outcome(SyncResult(FALSE, "Invalid target configuration", <<>>, validation.errors),
                    start, FALSE, FALSE)
     ELSE IF changedFiles = <<>>
       THEN Outcome(SyncResult(TRUE, "No changes detected, sync skipped", <<>>, <<>>),
                    start, TRUE, FALSE)
     ELSE LET finish(st) ==
                Outcome(SyncResult(TRUE, "Incremental sync completed", st.files, st.errors),
                        st, TRUE, FALSE)
          IN finish(incSourceLoop(start, hs, lk, config, changedFiles, now))

\* SyncManager.incrementalSync
incrementalSync(hs, f, lk, ch, config, now) ==
  LET validation == validateTargets(hs, config.targets)
      start == Pass(f, ch, <<>>, <<>>, <<>>)
      changedFiles == getChangedSourceFiles(ch, f, config.sources, 1)
  IN IF ~validation.valid
       THEN Outcome(SyncResult(FALSE, "Invalid target configuration", <<>>, validation.errors),
                    start, FALSE, FALSE)
     ELSE IF changedFiles = <<>>
       THEN Outcome(SyncResult(TRUE, "No changes detected, sync skipped", <<>>, <<>>),
                    start, TRUE, FALSE)
     ELSE LET finish(st) ==
                Outcome(SyncResult(st.errors = <<>>, "Incremental sync completed",
                                   st.files, st.errors),
                        st, TRUE, FALSE)
          IN finish(incSourceLoop(start, hs, lk, config, changedFiles, now))

\* initializeTracking giving up at the first source it cannot track
RECURSIVE initializeTrackingStops(_, _, _, _)
initializeTrackingStops(ch, f, sources, si) ==
  IF si > Len(sources) THEN ch
  ELSE IF ~pathExists(f, sources[si]) \/ ~track(ch, f, sources[si]).ok THEN ch
  ELSE initializeTrackingStops(track(ch, f, sources[si]).val, f, sources, si + 1)

\* SyncManager.initializeTracking: the fingerprints after the loop from index
\* si; a failing track is caught and the loop goes on
RECURSIVE initializeTracking(_, _, _, _)
initializeTracking(ch, f, sources, si) ==
  IF si > Len(sources) THEN ch
  ELSE LET tracked(r) == IF r.ok THEN r.val ELSE ch
       IN initializeTracking(
            IF pathExists(f, sources[si]) THEN tracked(track(ch, f, sources[si])) ELSE ch,
            f, sources, si + 1)

\* sync running a full sync for a mode it does not know
syncDefaultsToFull(hs, f, lk, ch, config, now, visited) ==
  CASE config.mode = "incremental" -> incrementalSync(hs, f, lk, ch, config, now)
    [] OTHER -> fullSync(hs, f, lk, ch, config, now, visited)

\* SyncManager.sync
sync(hs, f, lk, ch, config, now, visited) ==
  CASE config.mode = "full" -> fullSync(hs, f, lk, ch, config, now, visited)
    [] config.mode = "incremental" -> incrementalSync(hs, f, lk, ch, config, now)
    [] OTHER ->
         Outcome(SyncResult(FALSE, "Sync failed: Unsupported sync mode", <<>>,
                            <<Err("Unsupported sync mode", <<config.mode>>)>>),
                 Pass(f, ch, <<>>, <<>>, <<>>), FALSE, FALSE)

\* ------------------------------------------------------------------ state
VARIABLES
  config,    \* the SyncConfig the SyncManager was constructed with
  handlers,  \* the keys of TargetManager.handlers
  fs,        \* the file system: path -> none / directory / file(content, mtime)
  locked,    \* the paths that cannot be created, written or removed
  changes,   \* FileChangeTracker.changes: path -> fingerprint
  last,      \* the operation that made the last step, and what it returned
  envSteps,  \* the number of steps the environment has taken
  run        \* the position of an incremental run that is awaiting a file
             \* operation, and the source content it has read

vars == <<config, handlers, fs, locked, changes, last, envSteps, run>>

\* no run in progress
Idle == [pc |-> "idle", content |-> <<>>]

NoTarget == Target("", "", <<>>, <<>>, FALSE)

\* the record of a step: operation, path argument, target argument, boolean
\* returned (or whether the call returned normally), SyncResult returned,
\* trace of the pass, whether validation passed, array of paths returned,
\* directory entries the cleanup reached before a removal failed, files the
\* cleanup removed
Last(op, path, target, flag, result, log, validated) ==
  [op |-> op, path |-> path, target |-> target, flag |-> flag,
   result |-> result, log |-> log, validated |-> validated,
   returned |-> <<>>, visited |-> {}, removed |-> {}]

Step(op, path, flag) == Last(op, path, NoTarget, flag, NoResult, <<>>, FALSE)

\* the configurations an engine is constructed with
SourceLists == {<<srcAB>>, <<srcA, srcDB>>}
TargetLists == {<<tRules, tOnlyA>>, <<tPlain, tOff>>,
                <<tPlain, tOffEmpty>>, <<tNoPath, tPlain>>, <<tOnlyA>>,
                <<tPlain, tInD>>, <<tHere>>}
Modes == {"full", "incremental", "mirror"}
Configs == [sources : SourceLists, targets : TargetLists, mode : Modes]

\* the paths whose permissions the environment changes
LockablePaths == {dstOA, dirO}

InitFs ==
  [p \in Paths |-> IF p \in {cwd, dirD} THEN Dir
                   ELSE IF p \in SourcePaths THEN File(<<"x">>, 0)
                   ELSE NoFile]

InitCommon ==
  /\ handlers = {}
  /\ fs = InitFs
  /\ locked = {}
  /\ changes = [p \in Paths |-> NoInfo]
  /\ last = Step("init", <<>>, FALSE)
  /\ envSteps = 0
  /\ run = Idle

\* the state after new SyncManager(config)
Init == config \in Configs /\ InitCommon

\* ------------------------------------------------------------ environment
\* another program writes a source file
EnvWrite(p, c, t) ==
  /\ envSteps < MaxEnvSteps
  /\ envSteps' = envSteps + 1
  /\ fs[Dirname(p)].kind = "dir"
  /\ fs[p].kind # "dir"
  /\ fs[p] # File(c, t)
  /\ fs' = [fs EXCEPT ![p] = File(c, t)]
  /\ last' = Step("env", p, TRUE)
  /\ UNCHANGED <<run, config, handlers, locked, changes>>

\* another program deletes a source file (or the directory in its place)
EnvDelete(p) ==
  /\ envSteps < MaxEnvSteps
  /\ envSteps' = envSteps + 1
  /\ fs[p].kind # "none"
  /\ fs' = [fs EXCEPT ![p] = NoFile]
  /\ last' = Step("env", p, TRUE)
  /\ UNCHANGED <<run, config, handlers, locked, changes>>

\* another program puts a directory where the source file was
EnvMkdir(p) ==
  /\ envSteps < MaxEnvSteps
  /\ envSteps' = envSteps + 1
  /\ fs[Dirname(p)].kind = "dir"
  /\ fs[p].kind # "dir"
  /\ fs' = [fs EXCEPT ![p] = Dir]
  /\ last' = Step("env", p, TRUE)
  /\ UNCHANGED <<run, config, handlers, locked, changes>>

\* a path becomes read-only, or writable again
EnvLock(p) ==
  /\ envSteps < MaxEnvSteps
  /\ envSteps' = envSteps + 1
  /\ locked' = IF p \in locked THEN locked \ {p} ELSE locked \cup {p}
  /\ last' = Step("env", p, TRUE)
  /\ UNCHANGED <<run, config, handlers, fs, changes>>

\* ---------------------------------------------------------------- actions
\* TargetManager.register(new UniversalHandler())
Register ==
  /\ "*" \notin handlers
  /\ handlers' = handlers \cup {"*"}
  /\ last' = Step("register", <<>>, TRUE)
  /\ UNCHANGED <<run, config, fs, locked, changes, envSteps>>

\* TargetManager.clear()
ClearHandlers ==
  /\ handlers # {}
  /\ handlers' = {}
  /\ last' = Step("clearHandlers", <<>>, TRUE)
  /\ UNCHANGED <<run, config, fs, locked, changes, envSteps>>

\* FileChangeTracker.track(p)
Track(p) ==
  \E r \in {track(changes, fs, p)} :
     /\ changes' = IF r.ok THEN r.val ELSE changes
     /\ last' = Step("track", p, r.ok)
     /\ UNCHANGED <<run, config, handlers, fs, locked, envSteps>>

\* FileChangeTracker.updateTracking(p)
UpdateTracking(p) ==
  \E r \in {updateTracking(changes, fs, p)} :
     /\ changes' = IF r.ok THEN r.val ELSE changes
     /\ last' = Step("updateTracking", p, r.ok)
     /\ UNCHANGED <<run, config, handlers, fs, locked, envSteps>>

\* FileChangeTracker.hasChanged(p)
HasChanged(p) ==
  /\ last' = Step("hasChanged", p, hasChanged(changes, fs, p))
  /\ UNCHANGED <<run, config, handlers, fs, locked, changes, envSteps>>

\* the argument of getChangedFiles
CheckedPaths == <<srcA, srcAB, srcDB>>

\* FileChangeTracker.getChangedFiles(CheckedPaths)
GetChangedFiles ==
  /\ last' = [Step("getChangedFiles", <<>>, TRUE) EXCEPT
               !.returned = getChangedFiles(changes, fs, CheckedPaths)]
  /\ UNCHANGED <<run, config, handlers, fs, locked, changes, envSteps>>

\* the arguments of trackMultiple
TrackedLists == {CheckedPaths, <<srcDB, srcA>>}

\* FileChangeTracker.trackMultiple(filePaths)
TrackMultiple(filePaths) ==
  \E r \in {trackMultiple(changes, fs, filePaths)} :
     /\ changes' = r.changes
     /\ last' = [Step("trackMultiple", <<>>, TRUE) EXCEPT !.returned = r.trackedFiles]
     /\ UNCHANGED <<run, config, handlers, fs, locked, envSteps>>

\* FileChangeTracker.isTracked(p)
IsTracked(p) ==
  /\ last' = Step("isTracked", p, isTracked(changes, p))
  /\ UNCHANGED <<run, config, handlers, fs, locked, changes, envSteps>>

\* FileChangeTracker.untrack(p)
Untrack(p) ==
  /\ changes' = untrack(changes, p)
  /\ last' = Step("untrack", p, TRUE)
  /\ UNCHANGED <<run, config, handlers, fs, locked, envSteps>>

\* FileChangeTracker.clear()
Clear ==
  /\ changes' = clearTracking(changes)
  /\ last' = Step("clear", <<>>, TRUE)
  /\ UNCHANGED <<run, config, handlers, fs, locked, envSteps>>

\* TargetManager.sync(source, target)
Dispatch(source, target) ==
  \E r \in {targetManagerSync(handlers, fs, locked, source, target, Now)} :
     /\ fs' = r.fs
     /\ last' = Last("dispatch", source, target, ~r.threw, r.result, <<>>, FALSE)
     /\ UNCHANGED <<run, config, handlers, locked, changes, envSteps>>

\* SyncManager.sync()
Sync(visited) ==
  \E r \in {sync(handlers, fs, locked, changes, config, Now, visited)} :
     /\ fs' = r.fs
     /\ changes' = r.changes
     /\ last' = [Last("sync", <<>>, NoTarget, TRUE, r.result, r.log, r.validated)
                  EXCEPT !.visited = visited,
                         !.removed = IF r.cleaned
                                       THEN cleanLoop(handlers, fs, locked,
                                                      config.targets, visited)
                                       ELSE {}]
     /\ UNCHANGED <<run, config, handlers, locked, envSteps>>

\* SyncManager.initializeTracking()
InitializeTracking ==
  /\ changes' = initializeTracking(changes, fs, config.sources, 1)
  /\ last' = Step("initializeTracking", <<>>, TRUE)
  /\ UNCHANGED <<run, config, handlers, fs, locked, envSteps>>

\* the sources of the configuration
ConfigSources == {config.sources[i] : i \in 1..Len(config.sources)}

\* the modification times the environment leaves on a source of the engine:
\* the one the sources start with, or the present one
EnvTimes == {0, Now}

Environment ==
  \/ \E p \in ConfigSources, c \in Contents, t \in EnvTimes : EnvWrite(p, c, t)
  \/ \E p \in ConfigSources : EnvDelete(p)
  \/ \E p \in ConfigSources : EnvMkdir(p)
  \/ \E p \in LockablePaths : EnvLock(p)

\* the sync engine, its registry and its environment
Next ==
  \/ Environment
  \/ Register
  \/ ClearHandlers
  \/ \E visited \in SUBSET (DestPaths \ locked) :
       /\ (DestPaths \cap locked = {} => visited = {})
       /\ Sync(visited)
  \/ InitializeTracking

Spec == Init /\ [][Next]_vars

\* the target dispatcher on its own: any source against any target
InitDispatch == config = [sources |-> <<srcA>>, targets |-> <<tPlain>>, mode |-> "full"] /\ InitCommon

\* the sources the environment touches and the targets dispatched to
DispatchEnvPaths == {srcA, srcDB}
DispatchTargets == Targets \ {tOff}

NextDispatch ==
  \/ \E p \in DispatchEnvPaths, c \in Contents, t \in Times : EnvWrite(p, c, t)
  \/ \E p \in DispatchEnvPaths : EnvDelete(p)
  \/ \E p \in DispatchEnvPaths : EnvMkdir(p)
  \/ \E p \in LockablePaths : EnvLock(p)
  \/ Register
  \/ ClearHandlers
  \/ \E source \in SourcePaths, target \in DispatchTargets : Dispatch(source, target)

SpecDispatch == InitDispatch /\ [][NextDispatch]_vars

\* the fingerprint store on its own
InitTracker == InitDispatch

NextTracker ==
  \/ \E p \in SourcePaths, c \in Contents, t \in Times : EnvWrite(p, c, t)
  \/ \E p \in SourcePaths : EnvDelete(p)
  \/ \E p \in SourcePaths : EnvMkdir(p)
  \/ \E p \in SourcePaths : Track(p)
  \/ \E p \in SourcePaths : UpdateTracking(p)
  \/ \E p \in SourcePaths : HasChanged(p)
  \/ \E p \in SourcePaths : Untrack(p)
  \/ Clear
  \/ GetChangedFiles
  \/ \E filePaths \in TrackedLists : TrackMultiple(filePaths)
  \/ \E p \in SourcePaths : IsTracked(p)

SpecTracker == InitTracker /\ [][NextTracker]_vars

\* ------------------------------------------- an incremental run, by steps
\* An incremental run of an engine with one source and one target, taken
\* from one awaited file operation to the next, so that another program can
\* write the source in between: the run reads the source (RunStart), writes
\* the destination (RunWrite) and stores the fingerprint (RunTrack).
RunSource == config.sources[1]
RunTarget == config.targets[1]

\* the SyncResult of a run whose single pair ended with the given result
RunResult(r) ==
  Last("sync", <<>>, NoTarget, TRUE,
       SyncResult(r.errors = <<>>, "Incremental sync completed", r.files, r.errors),
       <<LogEntry("pair", 1, 1, r)>>, TRUE)

\* incrementalSync up to the read of the changed source by the handler
RunStart ==
  /\ run.pc = "idle"
  /\ \E validation \in {validateTargets(handlers, config.targets)},
        changedFiles \in {getChangedSourceFiles(changes, fs, config.sources, 1)},
        rd \in {syncRead(fs, RunSource, RunTarget)} :
       IF ~validation.valid
         THEN /\ last' = Last("sync", <<>>, NoTarget, TRUE,
                              SyncResult(FALSE, "Invalid target configuration", <<>>,
                                         validation.errors),
                              <<>>, FALSE)
              /\ run' = Idle
       ELSE IF changedFiles = <<>>
         THEN /\ last' = Last("sync", <<>>, NoTarget, TRUE,
                              SyncResult(TRUE, "No changes detected, sync skipped", <<>>, <<>>),
                              <<>>, TRUE)
              /\ run' = Idle
       ELSE IF ~rd.ok
         THEN /\ last' = RunResult(SyncResult(FALSE, "Failed to sync", <<>>, <<rd.err>>))
              /\ run' = Idle
       ELSE /\ last' = Step("syncing", RunSource, TRUE)
            /\ run' = [pc |-> "read", content |-> rd.val]
  /\ UNCHANGED <<config, handlers, fs, locked, changes, envSteps>>

\* the handler writes the content it read to the destination
RunWrite ==
  /\ run.pc = "read"
  /\ \E w \in {syncWrite(fs, locked, RunSource, RunTarget, run.content, Now)} :
       /\ fs' = w.fs
       /\ IF w.out.ok
            THEN /\ last' = Step("syncing", RunSource, TRUE)
                 /\ run' = [run EXCEPT !.pc = "written"]
            ELSE /\ last' = RunResult(SyncResult(FALSE, "Failed to sync", <<>>, <<w.out.err>>))
                 /\ run' = Idle
  /\ UNCHANGED <<config, handlers, locked, changes, envSteps>>

\* incrementalSync stores the fingerprint of the source and returns
RunTrack ==
  /\ run.pc = "written"
  /\ \E upd \in {updateTracking(changes, fs, RunSource)},
        tp \in {getTargetPath(RunTarget, RunSource)} :
       /\ changes' = IF upd.ok THEN upd.val ELSE changes
       /\ last' = Last("sync", <<>>, NoTarget, TRUE,
                       SyncResult(upd.ok, "Incremental sync completed", <<tp.val>>,
                                  IF upd.ok THEN <<>>
                                  ELSE <<Err("Failed to sync", RunSource)>>),
                       <<LogEntry("pair", 1, 1,
                                  SyncResult(TRUE, "Successfully synced", <<tp.val>>, <<>>))>>,
                       TRUE)
       /\ run' = Idle
  /\ UNCHANGED <<config, handlers, fs, locked, envSteps>>

InitRun ==
  /\ config = [sources |-> <<srcA>>, targets |-> <<tPlain>>, mode |-> "incremental"]
  /\ InitCommon

NextRun ==
  \/ \E c \in Contents, t \in Times : EnvWrite(RunSource, c, t)
  \/ EnvDelete(RunSource)
  \/ EnvMkdir(RunSource)
  \/ EnvLock(dstOA)
  \/ Register
  \/ RunStart
  \/ RunWrite
  \/ RunTrack

SpecRun == InitRun /\ [][NextRun]_vars

\* ================================================================= claims
\* no mapping of the target matches the source, by the handler's own match
NoMappingMatches(target, source) ==
  \A i \in 1..Len(target.mapping) : ~matchesSourcePattern(source, target.mapping[i].source)

\* C1: after a successful TargetManager.sync(source, target) the destination
\* of the first matching mapping holds the source content with that mapping's
\* transformRules applied in declared order (the content unchanged when the
\* mapping has no rules), and the result lists exactly that destination.
C1_DestinationIsTransformedSource ==
  (last.op = "dispatch" /\ last.result.success) =>
    LET i == firstMatch(last.target.mapping, last.path)
        m == last.target.mapping[i]
    IN /\ i # 0
       /\ last.result.files = <<m.destination>>
       /\ fs[m.destination].kind = "file"
       /\ fs[m.destination].content =
            applyTransformRules(fs[last.path].content, m.transform)

FailingStep(hs, f, lk, source, target) ==
  IF ~hasHandler(hs, target.type) THEN "Unsupported target type"
  ELSE IF ~validate(target) THEN "Invalid target configuration for"
  ELSE IF f[source].kind = "none" THEN "Source file does not exist"
  ELSE IF f[source].kind = "dir" THEN "EISDIR"
  ELSE IF NoMappingMatches(target, source) THEN "No mapping found for source file"
  ELSE LET dest == target.mapping[firstMatch(target.mapping, source)].destination IN
       IF f[Dirname(dest)].kind = "none" THEN "EACCES"
       ELSE IF f[Dirname(dest)].kind = "file" THEN "ENOTDIR"
       ELSE IF f[dest].kind = "dir" THEN "EISDIR"
       ELSE IF dest \in lk THEN "EACCES"
       ELSE ""

\* C3: TargetManager.sync returns normally on every input; when a step fails
\* (no handler, invalid target, missing or unreadable source, no mapping,
\* directory creation, write) the result has success = false, no files and
\* exactly the error of the failing step; otherwise success = true.
C3_SyncNeverThrows ==
  last.op = "dispatch" =>
    LET step == FailingStep(handlers, fs, locked, last.path, last.target)
    IN /\ last.flag
       /\ last.result.success <=> step = ""
       /\ ~last.result.success =>
            /\ last.result.files = <<>>
            /\ Len(last.result.errors) = 1
            /\ last.result.errors[1].msg = step

\* C3 witness: the last step, the write, failed and came back as a result
C3_Witness ==
  /\ last.op = "dispatch"
  /\ ~last.result.success
  /\ last.flag
  /\ fs[dirO].kind = "dir"
  /\ last.result.errors = <<Err("EACCES", dstOA)>>

\* the configured mode is one the engine supports
ModeSupported == config.mode \in {"full", "incremental"}

\* C4: in both modes, when validateTargets reports an invalid target the
\* engine returns success = false with the validation errors and no files,
\* dispatches nothing, and leaves the file system (no cleanup, no write, no
\* directory created) and the fingerprint store as they were.
C4_InvalidTargetsTouchNothing ==
  [][ (/\ last'.op = "sync"
       /\ ModeSupported
       /\ ~validateTargets(handlers, config.targets).valid) =>
        /\ ~last'.result.success
        /\ last'.result.errors = validateTargets(handlers, config.targets).errors
        /\ last'.result.errors # <<>>
        /\ last'.result.files = <<>>
        /\ last'.log = <<>>
        /\ fs' = fs
        /\ changes' = changes ]_vars

\* C4 witness: a full sync refused at validation although the source exists,
\* an enabled valid target maps it and a handler is registered
C4_Witness ==
  /\ last.op = "sync"
  /\ config.mode = "full"
  /\ ~last.validated
  /\ last.result.errors = <<Err("Invalid configuration for target", <<"nopath">>)>>
  /\ fs[srcA].kind = "file"
  /\ fs[dstOA].kind = "none"

\* the files and the errors a pass trace stands for, in trace order
RECURSIVE LogFiles(_)
LogFiles(log) ==
  IF log = <<>> THEN <<>>
  ELSE (IF Head(log).kind = "pair" THEN Head(log).result.files ELSE <<>>)
       \o LogFiles(Tail(log))

RECURSIVE LogErrors(_)
LogErrors(log) ==
  IF log = <<>> THEN <<>>
  ELSE (IF Head(log).kind = "pair"
          THEN Head(log).result.errors
          ELSE <<Err("Source file not found", config.sources[Head(log).si])>>)
       \o LogErrors(Tail(log))

\* C5: in both modes, once validation passed: success holds exactly when every
\* dispatched pair succeeded and no source was missing; files is the
\* concatenation of the pairs' written paths and errors the concatenation of
\* the pairs' errors (with the "Source file not found" error of each missing
\* source at its place), in declared source order then declared target order.
C5_ResultAggregatesPairs ==
  (last.op = "sync" /\ ModeSupported /\ last.validated) =>
    /\ last.result.success <=>
         \A i \in 1..Len(last.log) :
           last.log[i].kind = "pair" /\ last.log[i].result.success
    /\ last.result.files = LogFiles(last.log)
    /\ last.result.errors = LogErrors(last.log)
    /\ \A i, j \in 1..Len(last.log) :
         i < j => \/ last.log[i].si < last.log[j].si
                  \/ last.log[i].si = last.log[j].si /\ last.log[i].ti < last.log[j].ti
    /\ \A i \in 1..Len(last.log) :
         last.log[i].kind = "pair" =>
           (last.log[i].result.success <=> last.log[i].result.errors = <<>>)

\* C5 witness: a pass with a failed pair before a successful one
C5_Witness ==
  /\ last.op = "sync"
  /\ last.validated
  /\ Len(last.log) >= 3
  /\ ~last.result.success
  /\ last.log[1].kind = "pair" /\ ~last.log[1].result.success
  /\ last.result.files # <<>>
  /\ Len(last.result.errors) >= 2

\* the entries of the trace for source si / for the pair (si, ti)
MissingEntries(si) == {i \in 1..Len(last.log) : last.log[i].kind = "missing" /\ last.log[i].si = si}
PairEntries(si, ti) ==
  {i \in 1..Len(last.log) : last.log[i].kind = "pair" /\ last.log[i].si = si /\ last.log[i].ti = ti}

\* C6: a full-sync pass that passed validation dispatches every pair of an
\* existing source and an enabled target exactly once, whatever failed before
\* it, and records exactly one "Source file not found" error for every missing
\* source (which is dispatched to no target).
C6_FullSyncNeverStops ==
  (last.op = "sync" /\ config.mode = "full" /\ last.validated) =>
    \A si \in 1..Len(config.sources) :
      IF pathExists(fs, config.sources[si])
        THEN /\ MissingEntries(si) = {}
             /\ \A ti \in 1..Len(config.targets) :
                  Cardinality(PairEntries(si, ti)) =
                    IF config.targets[ti].enabled THEN 1 ELSE 0
        ELSE /\ Cardinality(MissingEntries(si)) = 1
             /\ \A ti \in 1..Len(config.targets) : PairEntries(si, ti) = {}
             /\ Cardinality({k \in 1..Len(last.result.errors) :
                  last.result.errors[k] =
                    Err("Source file not found", config.sources[si])}) = 1

\* C6 witness: the first source is missing, and the second one still reached
\* both targets, failing on one and written to the other
C6_Witness ==
  /\ last.op = "sync" /\ config.mode = "full" /\ last.validated
  /\ Len(last.log) = 3
  /\ last.log[1].kind = "missing"
  /\ last.log[2].kind = "pair" /\ last.log[2].result.success
  /\ last.log[3].kind = "pair" /\ ~last.log[3].result.success

\* C7: a target with enabled = false contributes nothing to a pass: it is
\* never dispatched to and no error of the result is about it, whatever its
\* mapping list contains.
C7_DisabledTargetContributesNothing ==
  (last.op = "sync" /\ ModeSupported) =>
    \A ti \in 1..Len(config.targets) :
      ~config.targets[ti].enabled =>
        /\ \A si \in 1..Len(config.sources) : PairEntries(si, ti) = {}
        /\ \A k \in 1..Len(last.result.errors) :
             last.result.errors[k].arg # <<config.targets[ti].name>>

\* C8: a hasChanged(f) that immediately follows a successful track(f) or
\* updateTracking(f) (no step of the environment in between) returns false.
C8_UnchangedAfterTrack ==
  [][ (/\ last.op \in {"track", "updateTracking"}
       /\ last.flag
       /\ last'.op = "hasChanged"
       /\ last'.path = last.path) => ~last'.flag ]_vars

\* C8 witness: hasChanged has returned false for a file
C8_Witness ==
  /\ last.op = "hasChanged"
  /\ ~last.flag
  /\ fs[last.path] = File(<<"y", "x">>, MaxTime)

\* C9: hasChanged returns true for every path without a stored fingerprint,
\* whether the file exists or not.
C9_UntrackedIsChanged ==
  (last.op = "hasChanged" /\ changes[last.path] = NoInfo) => last.flag

\* C9 witness: hasChanged on an existing regular file whose fingerprint was
\* removed by untrack or clear
C9_Witness ==
  /\ last.op = "hasChanged"
  /\ changes[last.path] = NoInfo
  /\ fs[last.path].kind = "file"
  /\ last.flag
  /\ \E p \in SourcePaths : p # last.path /\ changes[p] # NoInfo

\* C10: for a tracked regular file hasChanged returns true whenever the
\* current hash, size or modification time differs from the stored one.
C10_AnyFieldDiffers ==
  (/\ last.op = "hasChanged"
   /\ changes[last.path] # NoInfo
   /\ fs[last.path].kind = "file"
   /\ \/ Hash(fs[last.path].content) # changes[last.path].hash
      \/ Len(fs[last.path].content) # changes[last.path].size
      \/ fs[last.path].mtime # changes[last.path].lastModified)
  => last.flag

\* C10 witness: only the modification time differs, and hasChanged said true
C10_Witness ==
  /\ last.op = "hasChanged"
  /\ changes[last.path] # NoInfo
  /\ fs[last.path].kind = "file"
  /\ Hash(fs[last.path].content) = changes[last.path].hash
  /\ Len(fs[last.path].content) = changes[last.path].size
  /\ fs[last.path].mtime # changes[last.path].lastModified
  /\ last.flag

\* the paths of a sequence
Range(seq) == {seq[i] : i \in 1..Len(seq)}

\* C11: when a path with a stored fingerprint can no longer be read (deleted,
\* or a directory in its place), hasChanged returns true, getChangedFiles
\* lists the path, and neither call alters the stored fingerprints.
C11_UnreadableIsChanged ==
  [][ /\ (/\ last'.op = "hasChanged"
          /\ changes[last'.path] # NoInfo
          /\ fs[last'.path].kind # "file")
         => (last'.flag /\ changes' = changes)
      /\ last'.op = "getChangedFiles"
         => /\ last'.flag
            /\ changes' = changes
            /\ \A p \in Range(CheckedPaths) :
                 (changes[p] # NoInfo /\ fs[p].kind # "file")
                   => p \in Range(last'.returned) ]_vars

\* C11 witness: of three tracked paths one was deleted and one replaced by a
\* directory; getChangedFiles returned exactly these two, fingerprints kept
C11_Witness ==
  /\ last.op = "getChangedFiles"
  /\ \A p \in SourcePaths : changes[p] # NoInfo
  /\ fs[srcA].kind = "none"
  /\ fs[srcAB].kind = "file"
  /\ fs[srcDB].kind = "dir"
  /\ last.returned = <<srcA, srcDB>>

\* C12: track and updateTracking succeed exactly on a regular file; a failed
\* call leaves every stored fingerprint (that of its own path too) as it was,
\* and a successful one replaces the three fields of that path's fingerprint
\* together by the current ones, leaving the other paths alone.
C12_TrackAllOrNothing ==
  [][ last'.op \in {"track", "updateTracking"} =>
        /\ last'.flag <=> fs[last'.path].kind = "file"
        /\ ~last'.flag => changes' = changes
        /\ last'.flag =>
             changes' = [changes EXCEPT ![last'.path] =
                           Info(Hash(fs[last'.path].content),
                                Len(fs[last'.path].content),
                                fs[last'.path].mtime)] ]_vars

\* C12 witness: track failed on a directory that stands where a tracked file
\* was, and the earlier fingerprint is still stored
C12_Witness ==
  /\ last.op = "track"
  /\ ~last.flag
  /\ fs[last.path].kind = "dir"
  /\ changes[last.path] = Info(Hash(<<"x">>), 1, 0)

\* the stored fingerprint of a path is that of the regular file now there
Matches(ch, f, p) ==
  /\ f[p].kind = "file"
  /\ ch[p] = Info(Hash(f[p].content), Len(f[p].content), f[p].mtime)

\* the result of an incremental run that found nothing to do
NoChanges == SyncResult(TRUE, "No changes detected, sync skipped", <<>>, <<>>)

\* the entries of a trace for the pair (si, ti)
PairsIn(log, si, ti) ==
  {i \in 1..Len(log) : log[i].kind = "pair" /\ log[i].si = si /\ log[i].ti = ti}

\* C13: an incremental run on targets that pass validation, when every
\* declared source is a regular file matching its stored fingerprint, returns
\* success = true with the "No changes detected" message and empty files and
\* errors, dispatches no pair and leaves the file system and every
\* fingerprint as they were.
C13_NoChangeNoWork ==
  [][ (/\ last'.op = "sync"
       /\ config.mode = "incremental"
       /\ validateTargets(handlers, config.targets).valid
       /\ \A p \in ConfigSources : Matches(changes, fs, p)) =>
        /\ last'.result = NoChanges
        /\ last'.log = <<>>
        /\ fs' = fs
        /\ changes' = changes ]_vars

\* C13 witness: an incremental run skipped with every source tracked and a
\* handler registered, before any destination was written
C13_Witness ==
  /\ last.op = "sync"
  /\ config.mode = "incremental"
  /\ last.validated
  /\ last.result = NoChanges
  /\ \A p \in ConfigSources : Matches(changes, fs, p)
  /\ \A p \in DestPaths : fs[p].kind = "none"

\* C14: when an incremental run has written every declared source
\* successfully, every source matches its stored fingerprint afterwards, and
\* a run that follows it directly (no source modified in between) returns
\* success = true, the "No changes detected" message and files = [].
C14_FirstRunSetsBaseline ==
  [][ (/\ last.op = "sync"
       /\ config.mode = "incremental"
       /\ last.validated
       /\ last.result.success
       /\ \A si \in 1..Len(config.sources) :
            \E i \in 1..Len(last.log) :
              last.log[i].si = si /\ last.log[i].result.success
       /\ last'.op = "sync") =>
        /\ \A p \in ConfigSources : Matches(changes, fs, p)
        /\ last'.result = NoChanges
        /\ last'.log = <<>> ]_vars

\* C14 witness: an incremental run reports no changes, the destinations of
\* both sources having been written by an earlier run of the same engine
C14_Witness ==
  /\ last.op = "sync"
  /\ config.mode = "incremental"
  /\ last.result = NoChanges
  /\ Len(config.sources) = 2
  /\ fs[dstOA].kind = "file"
  /\ fs[dstOB].kind = "file"

\* C15: an incremental run that passed validation dispatches exactly once
\* every pair of a changed source (missing, not a regular file, or differing
\* from its stored fingerprint) and an enabled target, and dispatches no
\* pair of a source that matches its fingerprint or of a disabled target.
C15_OncePerChangedPair ==
  [][ (/\ last'.op = "sync"
       /\ config.mode = "incremental"
       /\ validateTargets(handlers, config.targets).valid) =>
        \A si \in 1..Len(config.sources), ti \in 1..Len(config.targets) :
          Cardinality(PairsIn(last'.log, si, ti)) =
            IF ~Matches(changes, fs, config.sources[si]) /\ config.targets[ti].enabled
              THEN 1 ELSE 0 ]_vars

\* C15 witness: of two sources only the second was changed, and it alone
\* was dispatched
C15_Witness ==
  /\ last.op = "sync"
  /\ config.mode = "incremental"
  /\ Len(config.sources) = 2
  /\ last.log # <<>>
  /\ \A i \in 1..Len(last.log) : last.log[i].si = 2
  /\ Matches(changes, fs, config.sources[1])
  /\ fs[config.sources[2]].content = <<"y", "x">>

CleaningFails(f, lk, target) ==
  LET d == getTargetDirectoryPath(target)
  IN /\ pathExists(f, d)
     /\ (f[d].kind # "dir" \/ filesUnder(f, d) \cap lk # {})

\* C17: in a full sync that passed validation and in which no removal fails,
\* the cleanup removes every existing file that is the destination of a
\* mapping of an enabled target, so that such a file, when the pass does not
\* write it again (its source is missing), is gone after the pass.
C17_CleanupRemovesDestinations ==
  [][ (/\ last'.op = "sync"
       /\ config.mode = "full"
       /\ validateTargets(handlers, config.targets).valid
       /\ locked = {}) =>
        \A ti \in 1..Len(config.targets) :
          config.targets[ti].enabled =>
            \A k \in 1..Len(config.targets[ti].mapping) :
              LET d == config.targets[ti].mapping[k].destination
              IN (/\ d \in DOMAIN fs
                  /\ fs[d].kind = "file"
                  /\ d \notin Range(last'.result.files)) => fs'[d].kind = "none" ]_vars

\* C18: in a full sync that passed validation and in which the cleaning of
\* some enabled target fails, every enabled target whose own cleaning does
\* not fail still has all its files removed, every existing source is still
\* dispatched once to every enabled target, and success and errors are those
\* of the write phase alone.
C18_CleanupFailureIsNotFatal ==
  [][ (/\ last'.op = "sync"
       /\ config.mode = "full"
       /\ validateTargets(handlers, config.targets).valid
       /\ \E ti \in 1..Len(config.targets) :
            config.targets[ti].enabled /\ CleaningFails(fs, locked, config.targets[ti])) =>
        /\ \A ti \in 1..Len(config.targets) :
             (/\ config.targets[ti].enabled
              /\ pathExists(fs, getTargetDirectoryPath(config.targets[ti]))
              /\ ~CleaningFails(fs, locked, config.targets[ti])) =>
               filesUnder(fs, getTargetDirectoryPath(config.targets[ti]))
                 \subseteq last'.removed
        /\ \A si \in 1..Len(config.sources), ti \in 1..Len(config.targets) :
             Cardinality(PairsIn(last'.log, si, ti)) =
               IF pathExists(fs', config.sources[si]) /\ config.targets[ti].enabled
                 THEN 1 ELSE 0
        /\ last'.result.success <=>
             \A i \in 1..Len(last'.log) :
               last'.log[i].kind = "pair" /\ last'.log[i].result.success
        /\ last'.result.errors = LogErrors(last'.log) ]_vars

\* C18 witness: o/a could not be removed, the cleaning of the second target
\* still removed d/b, and the pass went on to dispatch the pairs of the
\* source that exists, the first of which failed on the read-only o/a
C18_Witness ==
  /\ last.op = "sync"
  /\ config.mode = "full"
  /\ last.validated
  /\ dstOA \in locked
  /\ fs[dstOA].kind = "file"
  /\ CleaningFails(fs, locked, config.targets[1])
  /\ last.removed = {srcDB}
  /\ Len(last.log) = 3
  /\ last.log[1].result.errors = <<Err("EACCES", dstOA)>>
  /\ last.log[3].kind = "missing"

\* C19: when a full sync directly follows a full sync of the same engine
\* (sources, configuration and directory listing order unchanged), every
\* mapping destination has after the second run the content, or the absence,
\* it had after the first.
C19_FullSyncIdempotent ==
  [][ (/\ last.op = "sync"
       /\ last'.op = "sync"
       /\ config.mode = "full"
       /\ last'.visited = last.visited) =>
        \A ti \in 1..Len(config.targets) :
          \A k \in 1..Len(config.targets[ti].mapping) :
            LET d == config.targets[ti].mapping[k].destination
            IN d \in DOMAIN fs =>
                 /\ fs'[d].kind = fs[d].kind
                 /\ fs'[d].content = fs[d].content ]_vars

\* C19 witness: a full sync removed the two destinations an earlier run had
\* written and wrote them again with the content of their sources
C19_Witness ==
  /\ last.op = "sync"
  /\ config.mode = "full"
  /\ last.result.success
  /\ last.removed = {dstOA, dstOB}
  /\ last.result.files = <<dstOA, dstOB>>
  /\ fs[dstOA].content = fs[srcA].content
  /\ fs[dstOB].content = fs[srcDB].content

\* C20: initializeTracking returns normally; afterwards every declared
\* source that is a regular file matches its stored fingerprint, the
\* fingerprint of every other path is as it was, and the file system is
\* untouched. An incremental run that follows it directly, on targets that
\* pass validation and with every declared source a regular file, reports
\* no changes and dispatches nothing.
C20_InitializeTrackingSetsBaseline ==
  [][ /\ last'.op = "initializeTracking" =>
           /\ last'.flag
           /\ fs' = fs
           /\ \A p \in Paths :
                IF p \in ConfigSources /\ fs[p].kind = "file"
                  THEN Matches(changes', fs, p)
                  ELSE changes'[p] = changes[p]
      /\ (/\ last.op = "initializeTracking"
          /\ last'.op = "sync"
          /\ config.mode = "incremental"
          /\ validateTargets(handlers, config.targets).valid
          /\ \A p \in ConfigSources : fs[p].kind = "file") =>
           /\ last'.result = NoChanges
           /\ last'.log = <<>> ]_vars

\* C20 witness: the first declared source is a directory and was skipped,
\* the second was modified since its last fingerprint and is tracked afresh
C20_Witness ==
  /\ last.op = "initializeTracking"
  /\ Len(config.sources) = 2
  /\ fs[config.sources[1]].kind = "dir"
  /\ changes[config.sources[1]] = NoInfo
  /\ fs[config.sources[2]].content = <<"y", "x">>
  /\ Matches(changes, fs, config.sources[2])

\* the sources a trace shows written to at least one target
WrittenSources(log) ==
  {config.sources[log[i].si] : i \in {j \in 1..Len(log) :
                                        log[j].kind = "pair" /\ log[j].result.success}}

\* C21: an incremental run alters the stored fingerprint of a path only if
\* that path is a source written successfully to a target in this run; the
\* fingerprints of unchanged sources, of sources whose every pair failed and
\* of every other path are as they were, and a refreshed fingerprint is that
\* of the source file as it stands.
C21_TrackingOnlyAfterWrite ==
  [][ (last'.op = "sync" /\ config.mode = "incremental") =>
        \A p \in Paths :
          /\ p \notin WrittenSources(last'.log) => changes'[p] = changes[p]
          /\ p \in WrittenSources(last'.log) => Matches(changes', fs', p) ]_vars

\* C21 witness: the first source failed on its only enabled target and has
\* no fingerprint; the second was written and has its fingerprint
C21_Witness ==
  /\ last.op = "sync"
  /\ config.mode = "incremental"
  /\ Len(last.log) = 2
  /\ last.log[1].si = 1 /\ last.log[1].result.errors = <<Err("EACCES", dstOA)>>
  /\ last.log[2].si = 2 /\ last.log[2].result.success
  /\ fs[config.sources[1]].kind = "file"
  /\ changes[config.sources[1]] = NoInfo
  /\ Matches(changes, fs, config.sources[2])

\* the destinations of the mappings of the enabled targets
EnabledDestinations ==
  UNION {{config.targets[ti].mapping[k].destination :
            k \in 1..Len(config.targets[ti].mapping)} :
         ti \in {t \in 1..Len(config.targets) : config.targets[t].enabled}}

\* C22: no sync pass removes a file that is not the destination of a mapping
\* of an enabled target; in particular no declared source that is not such
\* a destination is removed, whatever the type and base path of the targets.
C22_OnlyDestinationsRemoved ==
  [][ last'.op = "sync" =>
        \A p \in Paths :
          (fs[p].kind = "file" /\ fs'[p].kind = "none") => p \in EnabledDestinations ]_vars

\* the pair of a trace entry got as far as the destination and failed there:
\* its directory could not be created or the file could not be written
WriteFailed(e) ==
  /\ e.kind = "pair"
  /\ ~e.result.success
  /\ e.result.errors # <<>>
  /\ e.result.errors[1].msg \in {"EACCES", "ENOTDIR"}

\* C23: when an incremental run directly follows an incremental run of the
\* same engine (no source modified in between), every pair of a source and an
\* enabled target whose write failed in the first run is dispatched again in
\* the second: a source is not taken as up to date while one of its enabled
\* targets was not written.
C23_FailedPairIsRetried ==
  [][ (/\ last.op = "sync"
       /\ last'.op = "sync"
       /\ config.mode = "incremental"
       /\ last.validated) =>
        \A si \in 1..Len(config.sources), ti \in 1..Len(config.targets) :
          (\E i \in PairsIn(last.log, si, ti) : WriteFailed(last.log[i]))
            => PairsIn(last'.log, si, ti) # {} ]_vars

\* a glob matched against a whole name: "*" stands for any run of
\* characters, every other character for itself
RECURSIVE GlobMatches(_, _)
GlobMatches(pat, name) ==
  IF pat = <<>> THEN name = <<>>
  ELSE IF Head(pat) = "*"
    THEN \E k \in 0..Len(name) : GlobMatches(Tail(pat), SubSeq(name, k + 1, Len(name)))
  ELSE name # <<>> /\ Head(name) = Head(pat) /\ GlobMatches(Tail(pat), Tail(name))

\* the match by filename only: equality without "*", the glob with it
FilenameMatches(pattern, source) ==
  IF Includes(pattern, "*")
    THEN GlobMatches(pattern, Basename(source))
    ELSE pattern = Basename(source)

\* C24: a dispatch writes through a mapping only when that mapping's
\* sourcePattern matches the filename of the source (equal to it without "*",
\* the whole filename matching the glob with "*"), and it fails with the
\* "No mapping found" error only when no mapping of the target does.
C24_MatchByFilenameOnly ==
  last.op = "dispatch" =>
    /\ last.result.success =>
         \E i \in 1..Len(last.target.mapping) :
           /\ last.result.files = <<last.target.mapping[i].destination>>
           /\ FilenameMatches(last.target.mapping[i].source, last.path)
    /\ last.result.errors = <<Err("No mapping found for source file", Basename(last.path))>> =>
         \A i \in 1..Len(last.target.mapping) :
           ~FilenameMatches(last.target.mapping[i].source, last.path)

\* the mappings of a target the handler takes as matching a source
MatchingMappings(target, source) ==
  {i \in 1..Len(target.mapping) : matchesSourcePattern(source, target.mapping[i].source)}

\* C25: a successful dispatch writes the destination of the first, in
\* declared order, of the mappings of the target that match the source, the
\* path being the mapping's destinationPath as written; the result lists
\* that path alone, and no other file, the destinations of later matching
\* mappings included, is touched.
C25_FirstMatchingMappingWins ==
  [][ (last'.op = "dispatch" /\ last'.result.success) =>
        LET matching == MatchingMappings(last'.target, last'.path)
            first == CHOOSE i \in matching : \A j \in matching : i <= j
            dest == last'.target.mapping[first].destination
        IN /\ matching # {}
           /\ getTargetPath(last'.target, last'.path) = Ok(dest)
           /\ last'.result.files = <<dest>>
           /\ fs'[dest].kind = "file"
           /\ \A p \in Paths \ {dest, Dirname(dest)} : fs'[p] = fs[p] ]_vars

\* C25 witness: d/b matches both "*b" and the later "b" of the target; o/b,
\* the destination of the first, was written and k, that of the later, not
C25_Witness ==
  /\ last.op = "dispatch"
  /\ last.result.success
  /\ last.target = tRules
  /\ last.path = srcDB
  /\ MatchingMappings(tRules, srcDB) = {2, 3}
  /\ last.result.files = <<dstOB>>
  /\ fs[dstOB].kind = "file"
  /\ fs[dstK].kind = "none"

\* C26: after a full sync every file the write phase wrote (every path of
\* the result's files) is there, a regular file carrying the time of the
\* pass, and every file the cleanup removed is gone unless the write phase
\* wrote it again: the removals all came before the writes.
C26_CleanupBeforeWrites ==
  (last.op = "sync" /\ config.mode = "full" /\ last.validated) =>
    /\ \A d \in Range(last.result.files) : fs[d].kind = "file" /\ fs[d].mtime = Now
    /\ \A p \in last.removed \ Range(last.result.files) : fs[p].kind = "none"

\* C26 witness: the cleanup removed o/a and o/b, written by an earlier pass;
\* this pass wrote o/a again and it is there, o/b was not and is gone
C26_Witness ==
  /\ last.op = "sync"
  /\ config.mode = "full"
  /\ last.removed = {dstOA, dstOB}
  /\ last.result.files = <<dstOA>>
  /\ fs[dstOA].kind = "file"
  /\ fs[dstOB].kind = "none"

\* the step stored the fingerprint of p: a successful track or
\* updateTracking of p, or a trackMultiple that returned p as tracked
Stored(l, p) ==
  \/ l.op \in {"track", "updateTracking"} /\ l.path = p /\ l.flag
  \/ l.op = "trackMultiple" /\ p \in Range(l.returned)

\* the step dropped the fingerprint of p: untrack(p) or clear()
Dropped(l, p) == (l.op = "untrack" /\ l.path = p) \/ l.op = "clear"

\* C27: the store starts empty; a fingerprint appears or is altered for a
\* path only by a successful track, updateTracking or trackMultiple of that
\* path, and disappears only by untrack of that path or clear; hasChanged,
\* getChangedFiles and isTracked leave every fingerprint as it is, isTracked
\* answers whether the path has one, and untrack(p) removes p's fingerprint
\* and no other.
C27_StoreHoldsOnlyTracked ==
  /\ \A p \in Paths : changes[p] = NoInfo
  /\ [][ /\ \A p \in Paths :
            /\ (changes'[p] # changes[p] /\ changes'[p] # NoInfo) => Stored(last', p)
            /\ (changes'[p] # changes[p] /\ changes'[p] = NoInfo) => Dropped(last', p)
            /\ Stored(last', p) => Matches(changes', fs, p)
         /\ last'.op \in {"hasChanged", "getChangedFiles", "isTracked"} => changes' = changes
         /\ last'.op = "isTracked" => (last'.flag <=> changes[last'.path] # NoInfo)
         /\ last'.op = "untrack" => changes' = [changes EXCEPT ![last'.path] = NoInfo]
         /\ last'.op = "clear" => \A p \in Paths : changes'[p] = NoInfo ]_vars

\* C27 witness: untrack(a) has run with the file a still there; a has no
\* fingerprint and the fingerprints of the two other files are still stored
C27_Witness ==
  /\ last.op = "untrack"
  /\ last.path = srcA
  /\ fs[srcA].kind = "file"
  /\ changes[srcA] = NoInfo
  /\ Matches(changes, fs, srcAB)
  /\ Matches(changes, fs, srcDB)

\* C28: an incremental run reports no changes only when the destination
\* holds the content the source has now: when another program wrote the
\* source while the previous run was between its read and its
\* updateTracking, the content now in the source was not written, and the
\* run must report the source as changed.
C28_NoBaselineForUnwrittenContent ==
  (last.op = "sync" /\ last.result = NoChanges) =>
    /\ fs[dstOA].kind = "file"
    /\ fs[dstOA].content = fs[RunSource].content

\* C29: when the configured mode is neither full nor incremental, sync()
\* returns normally a result with success = false, the "Unsupported sync
\* mode" message and error and no files; nothing is validated, cleaned,
\* dispatched or written and no fingerprint is touched.
C29_UnsupportedModeDoesNothing ==
  [][ (last'.op = "sync" /\ ~ModeSupported) =>
        /\ last'.flag
        /\ last'.result =
             SyncResult(FALSE, "Sync failed: Unsupported sync mode", <<>>,
                        <<Err("Unsupported sync mode", <<config.mode>>)>>)
        /\ ~last'.validated
        /\ last'.removed = {}
        /\ last'.log = <<>>
        /\ fs' = fs
        /\ changes' = changes ]_vars

\* C29 witness: sync() in the mode "mirror" with a handler registered, the
\* sources in place and targets that would pass validation; nothing written
C29_Witness ==
  /\ last.op = "sync"
  /\ config.mode = "mirror"
  /\ ~last.result.success
  /\ last.result.message = "Sync failed: Unsupported sync mode"
  /\ validateTargets(handlers, config.targets).valid
  /\ \A p \in ConfigSources : fs[p].kind = "file"
  /\ \A p \in DestPaths : fs[p].kind = "none"

\* C30: every SyncResult the engine returns (validation failure, unsupported
\* mode, no changes detected, completed pass) has success = true exactly
\* when its errors list is empty.
C30_SuccessIffNoErrors ==
  last.op = "sync" => (last.result.success <=> last.result.errors = <<>>)

\* C30 witness: an incremental pass that wrote a file and failed on another
\* pair returned success = false with files and errors both non-empty
C30_Witness ==
  /\ last.op = "sync"
  /\ config.mode = "incremental"
  /\ last.validated
  /\ last.result.files # <<>>
  /\ last.result.errors # <<>>
  /\ ~last.result.success

====
